---- MODULE Spec2Model ----
(***************************************************************************)
(* The hyperspectral data cube of peppy (src/peppy/hsi/cube.py): the Cube  *)
(* base class, its three interleave subclasses BIPCube, BILCube, BSQCube   *)
(* and the accessors a client calls on a loaded cube.                      *)
(*                                                                         *)
(* Conventions.                                                            *)
(*  - Python lists and numpy arrays are functions over 0-based indices;    *)
(*    an n-dimensional array is a function over index tuples <<i>>,        *)
(*    <<i,j>>, <<i,j,k>>.  Lists built by append and returned to the       *)
(*    caller (bandlist) are TLA+ sequences.                                *)
(*  - self.raw is held as its flat buffer raw[0..n-1]; numpy.reshape gives *)
(*    it a shape, and indexing the reshaped array is Item (C order).       *)
(*  - A numpy result is either a view, which aliases raw (it names the     *)
(*    positions of raw it shows), or a copy, which owns its values.        *)
(*  - Python's None is None == <<>>; a value that may be None is held as   *)
(*    Some(v) == <<v>>.                                                    *)
(*  - op, args and ret record the last call made on the cube, its          *)
(*    arguments and what it returned (or the exception it raised).         *)
(***************************************************************************)
EXTENDS Integers, Sequences, FiniteSets, TLC

\* Bounds of the model: the largest cube shape explored.
MaxLines == 2
MaxSamples == 2
MaxBands == 2

VARIABLES
    class,           \* the cube's class: "BIPCube" | "BILCube" | "BSQCube"
    interleave,      \* self.interleave, set by the subclass constructor
    lines,           \* self.lines
    samples,         \* self.samples
    bands,           \* self.bands
    raw,             \* self.raw, as its flat buffer
    writeable,       \* raw.flags.writeable: FALSE for a mode="r" memmap
    bbl,             \* self.bbl, bad band list (1 usable, 0 bad)
    spectraextrema,  \* self.spectraextrema, [min, max]
    wavelengths,     \* self.wavelengths
    wavelength_units,\* self.wavelength_units
    op,              \* name of the last call
    args,            \* its arguments
    ret,             \* its result
    dataset,         \* which logical data the payload was loaded with
    cursor           \* position of a client's whole-cube read loop

VARIABLES
    url,             \* self.url: None or a URL (protocol, path)
    mmap,            \* self.mmap: None, True or a numpy.memmap
    slice,           \* self.slice: None or the byte range [start, stop) of mmap
    data_type,       \* self.data_type: None or a numpy type
    itemsize,        \* self.itemsize
    byte_order,      \* self.byte_order
    data_bytes,      \* self.data_bytes
    data_offset,     \* self.data_offset
    header_offset,   \* self.header_offset
    file_offset,     \* self.file_offset
    scale_factor,    \* self.scale_factor: None or a number
    disk,            \* the file at the path in use: None or its bytes
    saved            \* which cube wrote that file (None: none did)

fileVars == <<class, url, mmap, slice, data_type, itemsize, byte_order,
              data_bytes, data_offset, header_offset, file_offset,
              scale_factor, disk, saved>>

VARIABLES
    threads,         \* the client threads inside a call on the cube
    serialized       \* whether the clients serialize their calls

raceVars == <<threads, serialized>>

vars == <<interleave, lines, samples, bands, raw, writeable, bbl,
          spectraextrema, wavelengths, wavelength_units, op, args, ret,
          dataset, cursor, fileVars, raceVars>>

cubeVars == <<interleave, lines, samples, bands, bbl, wavelengths,
              wavelength_units, dataset, writeable, fileVars>>

----------------------------------------------------------------------------
\* Python and numpy values

None == <<>>
Some(v) == <<v>>

SetMin(S) == CHOOSE x \in S : \A y \in S : x <= y
SetMax(S) == CHOOSE x \in S : \A y \in S : x >= y

\* a view onto raw: ix[t] is the position in raw shown at index t
View(ix) == [alias |-> TRUE, ix |-> ix]
\* an array that owns its data
Copy(data) == [alias |-> FALSE, data |-> data]
\* the values an array holds now
Values(a) == IF a.alias THEN [t \in DOMAIN a.ix |-> raw[a.ix[t]]] ELSE a.data
\* ndarray.min(), ndarray.max() of an array's values
amin(data) == SetMin({data[t] : t \in DOMAIN data})
amax(data) == SetMax({data[t] : t \in DOMAIN data})
\* data * bbl: numpy broadcasts the list along the last axis
MulLastAxis(data, l) == [t \in DOMAIN data |-> data[t] * l[t[Len(t)]]]

\* position in the flat buffer of element [i][j][k] of numpy.reshape(raw, shp)
Item(shp, i, j, k) == (i * shp[2] + j) * shp[3] + k

Interleaves == {"bip", "bil", "bsq"}
Pixels == (0 .. lines - 1) \X (0 .. samples - 1)
Locations == (0 .. lines - 1) \X (0 .. samples - 1) \X (0 .. bands - 1)
Size == lines * samples * bands

----------------------------------------------------------------------------
\* BIPCube: (line, sample, band)

BIPCube_shape == <<lines, samples, bands>>

BIPCube_getPixel(line, sample, band) ==
    raw[Item(BIPCube_shape, line, sample, band)]

BIPCube_getBandRaw(band) ==
    View([t \in (0 .. lines - 1) \X (0 .. samples - 1) |->
            Item(BIPCube_shape, t[1], t[2], band)])

BIPCube_getSpectraRaw(line, sample) ==
    View([t \in {<<b>> : b \in 0 .. bands - 1} |->
            Item(BIPCube_shape, line, sample, t[1])])

BIPCube_getLineOfSpectraCopy(line) ==
    Copy([t \in (0 .. samples - 1) \X (0 .. bands - 1) |->
            raw[Item(BIPCube_shape, line, t[1], t[2])]])

BIPCube_getBandBoundary == 1

BIPCube_flatToLocation(pos) ==
    LET line == pos \div (bands * samples)
        temp == pos % (bands * samples)
        sample == temp \div bands
        band == temp % bands
    IN <<line, sample, band>>

BIPCube_locationToFlat(line, sample, band) ==
    line * bands * samples + sample * bands + band

----------------------------------------------------------------------------
\* BILCube: (line, band, sample)

BILCube_shape == <<lines, bands, samples>>

BILCube_getPixel(line, sample, band) ==
    raw[Item(BILCube_shape, line, band, sample)]

BILCube_getBandRaw(band) ==
    View([t \in (0 .. lines - 1) \X (0 .. samples - 1) |->
            Item(BILCube_shape, t[1], band, t[2])])

\* mutant: the spectrum of the pixel mirrored along the line
BILCube_getSpectraRaw_mut(line, sample) ==
    View([t \in {<<b>> : b \in 0 .. bands - 1} |->
            Item(BILCube_shape, line, t[1], samples - 1 - sample)])

BILCube_getSpectraRaw(line, sample) ==
    View([t \in {<<b>> : b \in 0 .. bands - 1} |->
            Item(BILCube_shape, line, t[1], sample)])

\* mutant: the (bands x samples) slice returned without the transpose
BILCube_getLineOfSpectraCopy_mut(line) ==
    View([t \in (0 .. bands - 1) \X (0 .. samples - 1) |->
            Item(BILCube_shape, line, t[1], t[2])])

\* numpy.transpose of the (bands x samples) slice: a view, not a copy
BILCube_getLineOfSpectraCopy(line) ==
    View([t \in (0 .. samples - 1) \X (0 .. bands - 1) |->
            Item(BILCube_shape, line, t[2], t[1])])

BILCube_getBandBoundary == samples

\* mutant: the remainder split the BIP way (sample before band)
BILCube_flatToLocation_mut(pos) ==
    LET line == pos \div (bands * samples)
        temp == pos % (bands * samples)
        sample == temp \div bands
        band == temp % bands
    IN <<line, sample, band>>

BILCube_flatToLocation(pos) ==
    LET line == pos \div (bands * samples)
        temp == pos % (bands * samples)
        band == temp \div samples
        sample == temp % samples
    IN <<line, sample, band>>

BILCube_locationToFlat(line, sample, band) ==
    line * bands * samples + band * samples + sample

----------------------------------------------------------------------------
\* BSQCube: (band, line, sample)

BSQCube_shape == <<bands, lines, samples>>

\* mutant: the two spatial axes of the reshaped array exchanged
BSQCube_getPixel_mut(line, sample, band) ==
    raw[Item(<<bands, samples, lines>>, band, sample, line)]

BSQCube_getPixel(line, sample, band) ==
    raw[Item(BSQCube_shape, band, line, sample)]

BSQCube_getBandRaw(band) ==
    View([t \in (0 .. lines - 1) \X (0 .. samples - 1) |->
            Item(BSQCube_shape, band, t[1], t[2])])

BSQCube_getSpectraRaw(line, sample) ==
    View([t \in {<<b>> : b \in 0 .. bands - 1} |->
            Item(BSQCube_shape, t[1], line, sample)])

\* numpy.transpose of the (bands x samples) slice: a view, not a copy
BSQCube_getLineOfSpectraCopy(line) ==
    View([t \in (0 .. samples - 1) \X (0 .. bands - 1) |->
            Item(BSQCube_shape, t[2], line, t[1])])

\* mutant: the distance between bands of one line (BIL's)
BSQCube_getBandBoundary_mut == samples

BSQCube_getBandBoundary == samples * lines

BSQCube_flatToLocation(pos) ==
    LET band == pos \div (lines * samples)
        temp == pos % (lines * samples)
        line == temp \div samples
        sample == temp % samples
    IN <<line, sample, band>>

BSQCube_locationToFlat(line, sample, band) ==
    band * lines * samples + line * samples + sample

----------------------------------------------------------------------------
\* Method dispatch on the cube's class

shape ==
    CASE class = "BIPCube" -> BIPCube_shape
      [] class = "BILCube" -> BILCube_shape
      [] class = "BSQCube" -> BSQCube_shape

getPixel(line, sample, band) ==
    CASE class = "BIPCube" -> BIPCube_getPixel(line, sample, band)
      [] class = "BILCube" -> BILCube_getPixel(line, sample, band)
      [] class = "BSQCube" -> BSQCube_getPixel(line, sample, band)

getBandRaw(band) ==
    CASE class = "BIPCube" -> BIPCube_getBandRaw(band)
      [] class = "BILCube" -> BILCube_getBandRaw(band)
      [] class = "BSQCube" -> BSQCube_getBandRaw(band)

getSpectraRaw(line, sample) ==
    CASE class = "BIPCube" -> BIPCube_getSpectraRaw(line, sample)
      [] class = "BILCube" -> BILCube_getSpectraRaw(line, sample)
      [] class = "BSQCube" -> BSQCube_getSpectraRaw(line, sample)

getLineOfSpectraCopy(line) ==
    CASE class = "BIPCube" -> BIPCube_getLineOfSpectraCopy(line)
      [] class = "BILCube" -> BILCube_getLineOfSpectraCopy(line)
      [] class = "BSQCube" -> BSQCube_getLineOfSpectraCopy(line)

getBandBoundary ==
    CASE class = "BIPCube" -> BIPCube_getBandBoundary
      [] class = "BILCube" -> BILCube_getBandBoundary
      [] class = "BSQCube" -> BSQCube_getBandBoundary

flatToLocation(pos) ==
    CASE class = "BIPCube" -> BIPCube_flatToLocation(pos)
      [] class = "BILCube" -> BILCube_flatToLocation(pos)
      [] class = "BSQCube" -> BSQCube_flatToLocation(pos)

locationToFlat(line, sample, band) ==
    CASE class = "BIPCube" -> BIPCube_locationToFlat(line, sample, band)
      [] class = "BILCube" -> BILCube_locationToFlat(line, sample, band)
      [] class = "BSQCube" -> BSQCube_locationToFlat(line, sample, band)

\* self.raw.flat: the reshaped array read in C order
getFlatView ==
    View([t \in {<<i>> : i \in 0 .. Size - 1} |->
            Item(shape, t[1] \div (shape[2] * shape[3]),
                        (t[1] \div shape[3]) % shape[2],
                        t[1] % shape[3])])

----------------------------------------------------------------------------
\* The data a cube is loaded with

\* The logical value v(l,s,b) of each dataset: "arange" numbers the locations
\* (all distinct), "zeros" is createCube's numpy.zeros, "mixed" has both signs,
\* "positive" has no value <= 0.
Datasets == {"arange", "zeros", "mixed", "positive"}

Logical(d, line, sample, band) ==
    CASE d = "arange" -> (line * MaxSamples + sample) * MaxBands + band
      [] d = "zeros" -> 0
      [] d = "mixed" -> ((line * 7 + sample * 3 + band * 4 + 3) % 5) - 2
      [] d = "positive" -> 1 + ((line + 2 * sample + band) % 3)

\* The flat buffer that holds dataset d in this cube's interleave: v(l,s,b) is
\* at the position locationToFlat(l,s,b).
Stored(d) ==
    [pos \in 0 .. Size - 1 |->
        LET t == CHOOSE t \in Locations : locationToFlat(t[1], t[2], t[3]) = pos
        IN Logical(d, t[1], t[2], t[3])]

\* the payload as it was loaded
raw0 == Stored(dataset)

\* bad band lists of length bands
BadBandLists == [0 .. bands - 1 -> {0, 1}]

----------------------------------------------------------------------------
\* Files, element types and byte order

\* the class each subclass constructor's interleave tag belongs to
ClassOf == [bip |-> "BIPCube", bil |-> "BILCube", bsq |-> "BSQCube"]

\* ENVI standard byte order; the model's host is little endian
LittleEndian == 0
BigEndian == 1
nativeByteOrder == LittleEndian

\* the element types of the cubes whose bytes the model reads and writes,
\* as values of self.data_type
DataTypes == {"uint8", "int16"}

\* the element types a header may name
ElementTypes == {"int8", "uint8", "int16", "uint16", "int32", "uint32",
                 "int64", "uint64", "float32", "float64"}

\* numpy.empty([1],dtype=self.data_type).itemsize
ItemSize(datatype) ==
    CASE datatype \in {"int8", "uint8"} -> 1
      [] datatype \in {"int16", "uint16"} -> 2
      [] datatype \in {"int32", "uint32", "float32"} -> 4
      [] datatype \in {"int64", "uint64", "float64"} -> 8

\* number of elements of an array held as a function over 0 .. n-1
Count(a) == Cardinality(DOMAIN a)

\* the bytes of the flat array a of elements of the given size, each
\* element written in the given byte order (two's complement)
ToBytes(a, size, order) ==
    [p \in 0 .. size * Count(a) - 1 |->
        LET v == a[p \div size] % (256 ^ size)
            j == p % size
            digit == IF order = LittleEndian THEN j ELSE size - 1 - j
        IN (v \div (256 ^ digit)) % 256]

\* the elements of type datatype read in the given byte order from the
\* bytes b at [start, stop), whose length is a multiple of the item size
FromBytes(b, start, stop, datatype, order) ==
    IF datatype = "int16"
    THEN [k \in 0 .. ((stop - start) \div 2) - 1 |->
             LET b0 == b[start + 2 * k]
                 b1 == b[start + 2 * k + 1]
                 u == IF order = LittleEndian
                      THEN b0 + 256 * b1 ELSE b1 + 256 * b0
             IN IF u >= 32768 THEN u - 65536 ELSE u]
    ELSE [k \in 0 .. (stop - start) - 1 |-> b[start + k]]

\* values of self.mmap other than None
PyTrue == "True"
Memmap == "numpy.memmap"

\* the URLs of the model: the local file the variable disk holds, a remote
\* resource, and a local file that does not exist
FileURL == [protocol |-> "file", path |-> "cube.dat"]
HttpURL == [protocol |-> "http", path |-> "cube.dat"]
OtherURL == [protocol |-> "file", path |-> "other.dat"]

\* The fields of a loaded int16 cube that the accessors do not read: an
\* in-memory cube as createCube leaves it when raw is writeable, a cube
\* opened from its file otherwise.
Loaded ==
    /\ data_type = Some("int16")
    /\ itemsize = 2
    /\ byte_order = nativeByteOrder
    /\ data_bytes = 2 * Size
    /\ data_offset = 0
    /\ header_offset = 0
    /\ file_offset = 0
    /\ scale_factor = Some(10000)
    /\ saved = None
    /\ IF writeable
       THEN url = None /\ mmap = Some(PyTrue) /\ slice = None /\ disk = None
       ELSE /\ url = Some(FileURL)
            /\ mmap = Some(Memmap)
            /\ slice = Some(<<0, 2 * Size>>)
            /\ disk = Some(ToBytes(raw, 2, nativeByteOrder))

\* a program with a single client thread
SingleThreaded == threads = <<>> /\ serialized = TRUE

----------------------------------------------------------------------------
\* Addressing: the calls that only read the cube

Call(o, a, r) == op' = o /\ args' = a /\ ret' = r

ReadOnly == UNCHANGED <<cubeVars, raw, spectraextrema>>

GetPixel(line, sample, band) ==
    /\ Call("getPixel", <<line, sample, band>>, getPixel(line, sample, band))
    /\ ReadOnly

GetBandRaw(band) ==
    /\ Call("getBandRaw", <<band>>, getBandRaw(band))
    /\ ReadOnly

GetSpectraRaw(line, sample) ==
    /\ Call("getSpectraRaw", <<line, sample>>, getSpectraRaw(line, sample))
    /\ ReadOnly

GetLineOfSpectraCopy(line) ==
    /\ Call("getLineOfSpectraCopy", <<line>>, getLineOfSpectraCopy(line))
    /\ ReadOnly

GetFlatView ==
    /\ Call("getFlatView", <<>>, getFlatView)
    /\ ReadOnly

GetBandBoundary ==
    /\ Call("getBandBoundary", <<>>, getBandBoundary)
    /\ ReadOnly

FlatToLocation(pos) ==
    /\ Call("flatToLocation", <<pos>>, flatToLocation(pos))
    /\ ReadOnly

LocationToFlat(line, sample, band) ==
    /\ Call("locationToFlat", <<line, sample, band>>,
            locationToFlat(line, sample, band))
    /\ ReadOnly

InitAddr ==
    /\ interleave \in Interleaves
    /\ class = ClassOf[interleave]
    /\ lines \in 1 .. MaxLines
    /\ samples \in 1 .. MaxSamples
    /\ bands \in 1 .. MaxBands
    /\ dataset \in {"arange", "mixed"}
    /\ raw = raw0
    /\ writeable \in BOOLEAN
    /\ bbl = [c \in 0 .. bands - 1 |-> 1]
    /\ spectraextrema = <<None, None>>
    /\ wavelengths = <<>>
    /\ wavelength_units = None
    /\ op = "init" /\ args = <<>> /\ ret = None
    /\ cursor = 0
    /\ SingleThreaded
    /\ Loaded

NextAddr ==
    /\ UNCHANGED <<cursor, raceVars>>
    /\ \/ \E t \in Locations : GetPixel(t[1], t[2], t[3])
       \/ \E band \in 0 .. bands - 1 : GetBandRaw(band)
       \/ \E t \in Pixels : GetSpectraRaw(t[1], t[2])
       \/ \E line \in 0 .. lines - 1 : GetLineOfSpectraCopy(line)
       \/ GetFlatView
       \/ GetBandBoundary
       \/ \E pos \in 0 .. Size - 1 : FlatToLocation(pos)
       \/ \E t \in Locations : LocationToFlat(t[1], t[2], t[3])

SpecAddr == InitAddr /\ [][NextAddr]_vars

----------------------------------------------------------------------------
\* Extrema and the copying accessors

\* mutant: the recorded minimum overwritten without the comparison
updateExtrema_mut(spectra) ==
    LET mn == amin(spectra)
        mx == amax(spectra)
    IN <<Some(mn),
         IF spectraextrema[2] = None \/ mx > spectraextrema[2][1]
         THEN Some(mx) ELSE spectraextrema[2]>>

\* Cube.updateExtrema: the value of self.spectraextrema after the call
updateExtrema(spectra) ==
    LET mn == amin(spectra)
        mx == amax(spectra)
    IN <<IF spectraextrema[1] = None \/ mn < spectraextrema[1][1]
         THEN Some(mn) ELSE spectraextrema[1],
         IF spectraextrema[2] = None \/ mx > spectraextrema[2][1]
         THEN Some(mx) ELSE spectraextrema[2]>>

\* an exception raised to the caller
Raise(e) == [raise |-> e]

\* self.raw after the in-place assignment of data through the view a
Assign(a, data) ==
    [pos \in DOMAIN raw |->
        IF \E t \in DOMAIN a.ix : a.ix[t] = pos
        THEN data[CHOOSE t \in DOMAIN a.ix : a.ix[t] = pos]
        ELSE raw[pos]]

\* the arrays a client hands to updateExtrema
ExtremaInputs ==
    { [t \in {<<0>>} |-> -3],
      [t \in {<<0>>} |-> 4],
      [t \in {<<0>>, <<1>>} |-> IF t = <<0>> THEN 4 ELSE -3] }

UpdateExtrema(spectra) ==
    /\ spectraextrema' = updateExtrema(spectra)
    /\ Call("updateExtrema", <<spectra>>, None)
    /\ UNCHANGED <<cubeVars, raw>>

\* self.swap is False in every cube (nothing assigns it), so the byteswap
\* branches of getBand, getSpectra and getLineOfSpectra are never taken.
GetBandInPlace(band) ==
    LET s == getBandRaw(band)
    IN /\ spectraextrema' = updateExtrema(Values(s))
       /\ Call("getBandInPlace", <<band>>, s)
       /\ UNCHANGED <<cubeVars, raw>>

GetBand(band) ==
    LET s == getBandRaw(band)
    IN /\ spectraextrema' = updateExtrema(Values(s))
       /\ Call("getBand", <<band>>, Copy(Values(s)))
       /\ UNCHANGED <<cubeVars, raw>>

\* mutant: the in-place spectrum folded into the extrema as its docstring says
GetSpectraInPlace_mut(line, sample) ==
    LET spectra == getSpectraRaw(line, sample)
    IN /\ spectraextrema' = updateExtrema(Values(spectra))
       /\ Call("getSpectraInPlace", <<line, sample>>, spectra)
       /\ UNCHANGED <<cubeVars, raw>>

GetSpectraInPlace(line, sample) ==
    LET spectra == getSpectraRaw(line, sample)
    IN /\ Call("getSpectraInPlace", <<line, sample>>, spectra)
       /\ UNCHANGED <<cubeVars, raw, spectraextrema>>

GetSpectra(line, sample) ==
    LET spectra == MulLastAxis(Values(getSpectraRaw(line, sample)), bbl)
    IN /\ spectraextrema' = updateExtrema(spectra)
       /\ Call("getSpectra", <<line, sample>>, Copy(spectra))
       /\ UNCHANGED <<cubeVars, raw>>

\* spectra*=self.bbl multiplies in place: when getLineOfSpectraCopy returned a
\* view, the product is written into self.raw, and numpy raises if raw is a
\* read-only memmap.
GetLineOfSpectra(line) ==
    LET spectra == getLineOfSpectraCopy(line)
        product == MulLastAxis(Values(spectra), bbl)
    IN IF spectra.alias /\ ~writeable
       THEN /\ Call("getLineOfSpectra", <<line>>, Raise("ValueError"))
            /\ UNCHANGED <<cubeVars, raw, spectraextrema>>
       ELSE /\ raw' = IF spectra.alias THEN Assign(spectra, product) ELSE raw
            /\ spectraextrema' = updateExtrema(product)
            /\ Call("getLineOfSpectra", <<line>>,
                    IF spectra.alias THEN spectra ELSE Copy(product))
            /\ UNCHANGED cubeVars

\* a loaded cube, before any read
Init ==
    /\ interleave \in Interleaves
    /\ class = ClassOf[interleave]
    /\ lines \in 1 .. MaxLines
    /\ samples \in 1 .. MaxSamples
    /\ bands \in 1 .. MaxBands
    /\ dataset = "mixed"
    /\ raw = raw0
    /\ writeable \in BOOLEAN
    /\ bbl \in BadBandLists
    /\ spectraextrema = <<None, None>>
    /\ wavelengths = <<>>
    /\ wavelength_units = None
    /\ op = "init" /\ args = <<>> /\ ret = None
    /\ cursor = 0
    /\ SingleThreaded
    /\ Loaded

Next ==
    /\ UNCHANGED <<cursor, raceVars>>
    /\ \/ \E band \in 0 .. bands - 1 : GetBand(band)
       \/ \E band \in 0 .. bands - 1 : GetBandInPlace(band)
       \/ \E t \in Pixels : GetSpectra(t[1], t[2])
       \/ \E t \in Pixels : GetSpectraInPlace(t[1], t[2])
       \/ \E line \in 0 .. lines - 1 : GetLineOfSpectra(line)
       \/ \E spectra \in ExtremaInputs : UpdateExtrema(spectra)

Spec == Init /\ [][Next]_vars

----------------------------------------------------------------------------
\* Reading the whole cube once: a client's loop over the copying accessors,
\* on a cube whose extrema are still unset.  cursor counts the calls made.

Raised(r) == "raise" \in DOMAIN r

\* for line: for sample: cube.getSpectra(line, sample)
ReadNextSpectra ==
    /\ op \in {"init", "getSpectra"}
    /\ cursor < lines * samples
    /\ GetSpectra(cursor \div samples, cursor % samples)
    /\ cursor' = cursor + 1

\* for line: cube.getLineOfSpectra(line); an exception ends the loop
ReadNextLineOfSpectra ==
    /\ op \in {"init", "getLineOfSpectra"}
    /\ ~Raised(ret)
    /\ cursor < lines
    /\ GetLineOfSpectra(cursor)
    /\ cursor' = cursor + 1

\* the loop has read every pixel
ReadWholeCube ==
    \/ op = "getSpectra" /\ cursor = lines * samples
    \/ op = "getLineOfSpectra" /\ cursor = lines /\ ~Raised(ret)

InitScan ==
    /\ interleave \in Interleaves
    /\ class = ClassOf[interleave]
    /\ lines \in 1 .. MaxLines
    /\ samples \in 1 .. MaxSamples
    /\ bands \in 1 .. MaxBands
    /\ dataset \in Datasets
    /\ raw = raw0
    /\ writeable \in BOOLEAN
    /\ bbl \in BadBandLists
    /\ spectraextrema = <<None, None>>
    /\ wavelengths = <<>>
    /\ wavelength_units = None
    /\ op = "init" /\ args = <<>> /\ ret = None
    /\ cursor = 0
    /\ SingleThreaded
    /\ Loaded

NextScan ==
    /\ UNCHANGED raceVars
    /\ \/ ReadNextSpectra
       \/ ReadNextLineOfSpectra

SpecScan == InitScan /\ [][NextScan]_vars

----------------------------------------------------------------------------
\* Concurrent copying reads: two client threads inside Cube.getSpectra.
\* The interpreter may switch threads between any two statements of
\* updateExtrema, so its tests and its assignments are separate steps

Threads == {1, 2}

\* the other thread is between calls
Idle(t) == \A u \in Threads \ {t} : threads[u].pc \in {"start", "done"}

At(t, pc) == threads[t].pc = pc

Goto(t, pc) == threads' = [threads EXCEPT ![t].pc = pc]

\* getSpectra up to its call of updateExtrema: the masked copy of the pixel
BeginGetSpectra(t) ==
    /\ At(t, "start")
    /\ serialized => Idle(t)
    /\ LET line == threads[t].pixel[1]
           sample == threads[t].pixel[2]
           spectra == MulLastAxis(Values(getSpectraRaw(line, sample)), bbl)
       IN threads' = [threads EXCEPT ![t].spectra = spectra,
                                     ![t].pc = "min_test"]
    /\ UNCHANGED <<spectraextrema, op, args, ret>>

\* a minimum test that always succeeds
MinTest_mut(t) ==
    /\ At(t, "min_test")
    /\ Goto(t, "min_write")
    /\ UNCHANGED <<spectraextrema, op, args, ret>>

\* updateExtrema: mn=spectra.min() and the test of the stored minimum
MinTest(t) ==
    /\ At(t, "min_test")
    /\ LET mn == amin(threads[t].spectra)
       IN IF spectraextrema[1] = None \/ mn < spectraextrema[1][1]
          THEN Goto(t, "min_write")
          ELSE Goto(t, "max_test")
    /\ UNCHANGED <<spectraextrema, op, args, ret>>

\* updateExtrema: self.spectraextrema[0]=mn
MinWrite(t) ==
    /\ At(t, "min_write")
    /\ spectraextrema' =
           <<Some(amin(threads[t].spectra)), spectraextrema[2]>>
    /\ Goto(t, "max_test")
    /\ UNCHANGED <<op, args, ret>>

\* updateExtrema: mx=spectra.max() and the test of the stored maximum
MaxTest(t) ==
    /\ At(t, "max_test")
    /\ LET mx == amax(threads[t].spectra)
       IN IF spectraextrema[2] = None \/ mx > spectraextrema[2][1]
          THEN Goto(t, "max_write")
          ELSE Goto(t, "return")
    /\ UNCHANGED <<spectraextrema, op, args, ret>>

\* updateExtrema: self.spectraextrema[1]=mx
MaxWrite(t) ==
    /\ At(t, "max_write")
    /\ spectraextrema' =
           <<spectraextrema[1], Some(amax(threads[t].spectra))>>
    /\ Goto(t, "return")
    /\ UNCHANGED <<op, args, ret>>

\* getSpectra: return spectra
EndGetSpectra(t) ==
    /\ At(t, "return")
    /\ Goto(t, "done")
    /\ Call("getSpectra", threads[t].pixel, Copy(threads[t].spectra))
    /\ UNCHANGED spectraextrema

InitRace ==
    /\ interleave \in Interleaves
    /\ class = ClassOf[interleave]
    /\ lines \in 1 .. MaxLines
    /\ samples \in 1 .. MaxSamples
    /\ bands = MaxBands
    /\ dataset = "mixed"
    /\ raw = raw0
    /\ writeable = TRUE
    /\ bbl \in BadBandLists
    /\ spectraextrema = <<None, None>>
    /\ wavelengths = <<>>
    /\ wavelength_units = None
    /\ op = "init" /\ args = <<>> /\ ret = None
    /\ cursor = 0
    /\ threads \in [Threads -> {[pc |-> "start", pixel |-> p, spectra |-> <<>>]
                                   : p \in Pixels}]
    /\ serialized \in BOOLEAN
    /\ Loaded

NextRace ==
    /\ UNCHANGED <<cubeVars, raw, cursor, serialized>>
    /\ \E t \in Threads :
          \/ BeginGetSpectra(t)
          \/ MinTest(t)
          \/ MinWrite(t)
          \/ MaxTest(t)
          \/ MaxWrite(t)
          \/ EndGetSpectra(t)

SpecRace == InitRace /\ [][NextRace]_vars

----------------------------------------------------------------------------
\* Band selection by wavelength
\*
\* Wavelengths and query values are fixed-point numbers with three decimals:
\* the integer n stands for n/1000, so 0.45 (um) is 450 and 500 (nm) is
\* 500000, and the nm <-> um conversions are exact.  center, which the code
\* computes as (wavelen_max+wavelen_min)/2.0, is held doubled (center2).

\* utils.units_scale: the size of each unit, here in nanometres
units_scale == [nm |-> 1, um |-> 1000]

\* mutant: the scale applied the wrong way round (the line the code
\* keeps commented out, converted=val*cubeunits/theseunits)
normalizeUnits_mut(val, units) ==
    IF wavelength_units = None
    THEN val
    ELSE LET cubeunits == units_scale[wavelength_units[1]]
             theseunits == units_scale[units]
         IN (val * cubeunits) \div theseunits

normalizeUnits(val, units) ==
    IF wavelength_units = None
    THEN val
    ELSE LET cubeunits == units_scale[wavelength_units[1]]
             theseunits == units_scale[units]
         IN (val * theseunits) \div cubeunits

\* a set of band indices as an ascending list
RECURSIVE Ascending(_)
Ascending(S) ==
    IF S = {} THEN <<>>
    ELSE LET m == SetMin(S) IN <<m>> \o Ascending(S \ {m})

\* mutant: the lower band of the pair also taken when the distances are equal
NearestOfPair_mut(channel, center2) ==
    IF center2 - 2 * wavelengths[channel]
           <= 2 * wavelengths[channel + 1] - center2
    THEN <<channel>>
    ELSE <<channel + 1>>

\* lines 555-561: the nearer band of the pair (channel, channel+1)
NearestOfPair(channel, center2) ==
    IF center2 - 2 * wavelengths[channel]
           < 2 * wavelengths[channel + 1] - center2
    THEN <<channel>>
    ELSE <<channel + 1>>

\* mutant: the bad-band test left out of the range scan
getBandListByWavelength_mut(wavelen_min, wavelen_max, units) ==
    LET max1 == IF wavelen_max < 0 THEN wavelen_min ELSE wavelen_max
        min2 == normalizeUnits(wavelen_min, units)
        max2 == normalizeUnits(max1, units)
        inrange == {channel \in 0 .. bands - 1 :
                       /\ wavelengths[channel] >= min2
                       /\ wavelengths[channel] <= max2}
        center2 == max2 + min2
        usable == {channel \in 0 .. bands - 1 : bbl[channel] = 1}
        bracket == {channel \in 0 .. bands - 2 :
                       /\ bbl[channel] = 1
                       /\ 2 * wavelengths[channel] < center2
                       /\ 2 * wavelengths[channel + 1] > center2}
    IN IF DOMAIN wavelengths = {} THEN <<>>
       ELSE IF inrange # {} THEN Ascending(inrange)
       ELSE IF center2 < 2 * wavelengths[0]
            THEN IF usable = {} THEN <<>> ELSE <<SetMin(usable)>>
       ELSE IF center2 > 2 * wavelengths[bands - 1]
            THEN IF usable = {} THEN <<>> ELSE <<SetMax(usable)>>
       ELSE IF bracket = {} THEN <<>>
            ELSE NearestOfPair(SetMin(bracket), center2)

\* mutant: above the last wavelength the last band is taken, usable or not
getBandListByWavelength_mut2(wavelen_min, wavelen_max, units) ==
    LET max1 == IF wavelen_max < 0 THEN wavelen_min ELSE wavelen_max
        min2 == normalizeUnits(wavelen_min, units)
        max2 == normalizeUnits(max1, units)
        inrange == {channel \in 0 .. bands - 1 :
                       /\ bbl[channel] = 1
                       /\ wavelengths[channel] >= min2
                       /\ wavelengths[channel] <= max2}
        center2 == max2 + min2
        usable == {channel \in 0 .. bands - 1 : bbl[channel] = 1}
        bracket == {channel \in 0 .. bands - 2 :
                       /\ bbl[channel] = 1
                       /\ 2 * wavelengths[channel] < center2
                       /\ 2 * wavelengths[channel + 1] > center2}
    IN IF DOMAIN wavelengths = {} THEN <<>>
       ELSE IF inrange # {} THEN Ascending(inrange)
       ELSE IF center2 < 2 * wavelengths[0]
            THEN IF usable = {} THEN <<>> ELSE <<SetMin(usable)>>
       ELSE IF center2 > 2 * wavelengths[bands - 1]
            THEN IF usable = {} THEN <<>> ELSE <<bands - 1>>
       ELSE IF bracket = {} THEN <<>>
            ELSE NearestOfPair(SetMin(bracket), center2)

getBandListByWavelength(wavelen_min, wavelen_max, units) ==
    LET max1 == IF wavelen_max < 0 THEN wavelen_min ELSE wavelen_max
        min2 == normalizeUnits(wavelen_min, units)
        max2 == normalizeUnits(max1, units)
        inrange == {channel \in 0 .. bands - 1 :
                       /\ bbl[channel] = 1
                       /\ wavelengths[channel] >= min2
                       /\ wavelengths[channel] <= max2}
        center2 == max2 + min2
        usable == {channel \in 0 .. bands - 1 : bbl[channel] = 1}
        bracket == {channel \in 0 .. bands - 2 :
                       /\ bbl[channel] = 1
                       /\ 2 * wavelengths[channel] < center2
                       /\ 2 * wavelengths[channel + 1] > center2}
    IN IF DOMAIN wavelengths = {} THEN <<>>
       ELSE IF inrange # {} THEN Ascending(inrange)
       ELSE IF center2 < 2 * wavelengths[0]
            THEN IF usable = {} THEN <<>> ELSE <<SetMin(usable)>>
       ELSE IF center2 > 2 * wavelengths[bands - 1]
            THEN IF usable = {} THEN <<>> ELSE <<SetMax(usable)>>
       ELSE IF bracket = {} THEN <<>>
            ELSE NearestOfPair(SetMin(bracket), center2)

GetBandListByWavelength(wavelen_min, wavelen_max, units) ==
    /\ Call("getBandListByWavelength", <<wavelen_min, wavelen_max, units>>,
            getBandListByWavelength(wavelen_min, wavelen_max, units))
    /\ UNCHANGED <<cubeVars, raw, spectraextrema, cursor>>

\* a call that returns v, where the call may also raise
Return(v) == [return |-> v]

\* lines 408-421; bands[...][0] of an empty list raises IndexError
guessDisplayBands ==
    IF bands >= 3 /\ DOMAIN wavelengths # {}
    THEN LET found(wl) == getBandListByWavelength(wl, -1, "nm")
         IN IF \E wl \in {660000, 550000, 440000} : found(wl) = <<>>
            THEN Raise("IndexError")
            ELSE LET b == <<found(660000)[1], found(550000)[1],
                            found(440000)[1]>>
                 IN IF b[1] = b[2] /\ b[2] = b[3]
                    THEN Return(<<b[1]>>)
                    ELSE Return(b)
    ELSE Return(<<0>>)

GuessDisplayBands ==
    /\ Call("guessDisplayBands", <<>>, guessDisplayBands)
    /\ UNCHANGED <<cubeVars, raw, spectraextrema, cursor>>

\* mutant: a band is kept when either cube keeps it
getBadBandList_mut(self, other) ==
    IF other # None
    THEN [i \in 0 .. self.bands - 1 |->
             IF self.bbl[i] # 0 \/ other[1].bbl[i] # 0 THEN 1 ELSE 0]
    ELSE self.bbl

\* lines 583-591; self and other are cubes, of which the method reads
\* bands and bbl; other is None when the caller passes no cube
getBadBandList(self, other) ==
    IF other # None
    THEN [i \in 0 .. self.bands - 1 |->
             IF self.bbl[i] # 0 /\ other[1].bbl[i] # 0 THEN 1 ELSE 0]
    ELSE self.bbl

\* this cube, as the argument self of a method
Self ==
    [class |-> class, interleave |-> interleave, url |-> url,
     lines |-> lines, samples |-> samples, bands |-> bands,
     data_type |-> data_type, byte_order |-> byte_order,
     itemsize |-> itemsize, data_bytes |-> data_bytes,
     data_offset |-> data_offset, header_offset |-> header_offset,
     file_offset |-> file_offset, scale_factor |-> scale_factor,
     mmap |-> mmap, slice |-> slice, raw |-> raw, writeable |-> writeable,
     bbl |-> bbl, wavelengths |-> wavelengths,
     wavelength_units |-> wavelength_units,
     spectraextrema |-> spectraextrema]

\* the cubes a caller may pass: none, or one of the same number of bands
OtherCubes ==
    {None} \cup {Some([bands |-> bands, bbl |-> b]) : b \in BadBandLists}

GetBadBandList(other) ==
    /\ Call("getBadBandList", <<other>>, getBadBandList(Self, other))
    /\ UNCHANGED <<cubeVars, raw, spectraextrema, cursor>>

\* the values and units a caller may convert: 1.0 and 500.0
NormalizeInputs == {1000, 500000} \X {"nm", "um"}

NormalizeUnits(val, units) ==
    /\ Call("normalizeUnits", <<val, units>>, normalizeUnits(val, units))
    /\ UNCHANGED <<cubeVars, raw, spectraextrema, cursor>>

\* Bound of the model: the most bands of a cube that carries wavelengths.
MaxWaveBands == 3

\* the band centres a header may list, in nm
WavelengthGrid == {450, 550, 650}
\* the values a query may name, in nm
QueryGrid == {400, 500, 550, 600, 700}

\* the fixed-point number of nm nanometres when written in units u (in nm
\* when the units are not recorded)
InUnits(nm, u) == IF u = Some("um") THEN nm ELSE nm * 1000

\* the arguments of a query: wavelen_max is -1 when the caller omits it
Queries ==
    {<<InUnits(q[1], Some(u)),
       IF q[2] < 0 THEN -1 ELSE InUnits(q[2], Some(u)), u>> :
        q \in {q \in QueryGrid \X (QueryGrid \cup {-1}) :
                  q[2] < 0 \/ q[2] >= q[1]},
        u \in {"nm", "um"}}

\* a cube whose header listed no wavelengths, or listed them (sorted or
\* not), units known or not
InitWave ==
    /\ interleave = "bip"
    /\ class = ClassOf[interleave]
    /\ lines = 1
    /\ samples = 1
    /\ bands \in 1 .. MaxWaveBands
    /\ dataset = "zeros"
    /\ raw = raw0
    /\ writeable = TRUE
    /\ bbl \in BadBandLists
    /\ spectraextrema = <<None, None>>
    /\ wavelength_units \in {None, Some("nm"), Some("um")}
    /\ \/ wavelengths = <<>>
       \/ \E w \in [0 .. bands - 1 -> WavelengthGrid] :
             wavelengths =
                 [c \in 0 .. bands - 1 |-> InUnits(w[c], wavelength_units)]
    /\ op = "init" /\ args = <<>> /\ ret = None
    /\ cursor = 0
    /\ SingleThreaded
    /\ Loaded

NextWave ==
    /\ UNCHANGED raceVars
    /\ \/ \E q \in Queries : GetBandListByWavelength(q[1], q[2], q[3])
       \/ GuessDisplayBands
       \/ \E other \in OtherCubes : GetBadBandList(other)
       \/ \E v \in NormalizeInputs : NormalizeUnits(v[1], v[2])

SpecWave == InitWave /\ [][NextWave]_vars

----------------------------------------------------------------------------
\* The factory, open and save
\*
\* One cube is live at a time: newCube and createCube replace it with the
\* cube they return, and the file a cube saved stays on disk for the next.

\* the live cube is the cube c / becomes the cube c
Is(c) ==
    /\ class = c.class /\ interleave = c.interleave /\ url = c.url
    /\ lines = c.lines /\ samples = c.samples /\ bands = c.bands
    /\ data_type = c.data_type /\ byte_order = c.byte_order
    /\ itemsize = c.itemsize /\ data_bytes = c.data_bytes
    /\ data_offset = c.data_offset /\ header_offset = c.header_offset
    /\ file_offset = c.file_offset /\ scale_factor = c.scale_factor
    /\ mmap = c.mmap /\ slice = c.slice /\ raw = c.raw
    /\ writeable = c.writeable /\ bbl = c.bbl
    /\ wavelengths = c.wavelengths
    /\ wavelength_units = c.wavelength_units
    /\ spectraextrema = c.spectraextrema

Becomes(c) ==
    /\ class' = c.class /\ interleave' = c.interleave /\ url' = c.url
    /\ lines' = c.lines /\ samples' = c.samples /\ bands' = c.bands
    /\ data_type' = c.data_type /\ byte_order' = c.byte_order
    /\ itemsize' = c.itemsize /\ data_bytes' = c.data_bytes
    /\ data_offset' = c.data_offset /\ header_offset' = c.header_offset
    /\ file_offset' = c.file_offset /\ scale_factor' = c.scale_factor
    /\ mmap' = c.mmap /\ slice' = c.slice /\ raw' = c.raw
    /\ writeable' = c.writeable /\ bbl' = c.bbl
    /\ wavelengths' = c.wavelengths
    /\ wavelength_units' = c.wavelength_units
    /\ spectraextrema' = c.spectraextrema

\* lines 204-256 and the subclass constructors (599, 640, 682): the cube
\* BIPCube(url), BILCube(url) or BSQCube(url) constructs, interleave being
\* the subclass's tag
Construct(tag, u) ==
    [class |-> ClassOf[tag], interleave |-> tag, url |-> u,
     lines |-> -1, samples |-> -1, bands |-> -1,
     data_type |-> None, byte_order |-> nativeByteOrder,
     itemsize |-> 0, data_bytes |-> 0,
     data_offset |-> 0, header_offset |-> 0,
     file_offset |-> 0, scale_factor |-> None,
     mmap |-> None, slice |-> None, raw |-> None, writeable |-> TRUE,
     bbl |-> <<>>, wavelengths |-> <<>>,
     wavelength_units |-> None,
     spectraextrema |-> <<None, None>>]

\* self.raw is an array (an array of the model has at least one element)
HasRaw(c) == DOMAIN c.raw # {}

\* mutant: data_bytes is computed from the shape even when it is set
initializeSizes_mut(c, datatype, byteorder) ==
    LET dt == IF datatype # None THEN datatype ELSE c.data_type
        bo == IF byteorder # None /\ byteorder[1] # 0
              THEN byteorder[1] ELSE c.byte_order
        size == IF dt # None THEN ItemSize(dt[1]) ELSE c.itemsize
    IN [c EXCEPT !.data_type = dt, !.byte_order = bo, !.itemsize = size,
                 !.data_bytes = size * c.samples * c.lines * c.bands]

\* lines 327-339; datatype and byteorder are None or Some(value), and
\* "if byteorder:" is false for None and for 0
initializeSizes(c, datatype, byteorder) ==
    LET dt == IF datatype # None THEN datatype ELSE c.data_type
        bo == IF byteorder # None /\ byteorder[1] # 0
              THEN byteorder[1] ELSE c.byte_order
        size == IF dt # None THEN ItemSize(dt[1]) ELSE c.itemsize
    IN [c EXCEPT !.data_type = dt, !.byte_order = bo, !.itemsize = size,
                 !.data_bytes = IF c.data_bytes = 0
                                THEN size * c.samples * c.lines * c.bands
                                ELSE c.data_bytes]

\* lines 341-353; file holds the bytes the memmap maps, and a slice bound
\* beyond the end is clipped to the end
initializeMmap(c, file) ==
    IF c.mmap = Some(Memmap)
    THEN LET n == Count(file)
             clip(x) == IF x > n THEN n ELSE x
         IN [c EXCEPT !.slice =
                Some(IF c.data_offset > 0
                     THEN IF c.data_bytes > 0
                          THEN <<clip(c.data_offset),
                                 clip(c.data_offset + c.data_bytes)>>
                          ELSE <<clip(c.data_offset), n>>
                     ELSE <<0, n>>)]
    ELSE c

\* line 358: slice.view(data_type) raises ValueError when the slice is not
\* a whole number of elements
ViewFails(c) ==
    /\ ~HasRaw(c)
    /\ c.slice # None
    /\ c.data_type # None
    /\ (c.slice[1][2] - c.slice[1][1]) % ItemSize(c.data_type[1]) # 0

\* lines 355-360, when the view can be taken; view(None) keeps the bytes
initializeRaw(c, file) ==
    IF ~HasRaw(c) /\ c.slice # None
    THEN [c EXCEPT !.raw = FromBytes(file, c.slice[1][1], c.slice[1][2],
                                     IF c.data_type = None THEN "uint8"
                                     ELSE c.data_type[1],
                                     c.byte_order),
                   !.writeable = FALSE]
    ELSE c

\* numpy.reshape in shape() (lines 601, 642, 684) raises ValueError unless
\* raw has lines*samples*bands elements
ShapeFails(c) ==
    \/ c.lines < 1 \/ c.samples < 1 \/ c.bands < 1
    \/ Count(c.raw) # c.lines * c.samples * c.bands

\* lines 396-404; datatype is self.data_type, None or Some(type)
guessScaleFactor(datatype) ==
    IF datatype \in {Some(t) : t \in {"int8", "int16", "int32", "uint16",
                                      "uint32", "int64", "uint64"}}
    THEN 10000
    ELSE IF datatype \in {Some("float32"), Some("float64")}
    THEN 1
    ELSE 1

\* lines 423-429, on a non-empty wavelength list
guessWavelengthUnits(c) ==
    IF c.wavelengths[Count(c.wavelengths) - 1] < 100000 THEN "um" ELSE "nm"

\* lines 366-394
verifyAttributes(c) ==
    [c EXCEPT
       !.scale_factor = IF c.scale_factor = None
                        THEN Some(guessScaleFactor(c.data_type))
                        ELSE c.scale_factor,
       !.bbl = IF DOMAIN c.bbl = {}
               THEN [i \in 0 .. c.bands - 1 |-> 1]
               ELSE c.bbl,
       !.wavelength_units =
           IF DOMAIN c.wavelengths # {} /\ c.wavelength_units = None
           THEN Some(guessWavelengthUnits(c))
           ELSE c.wavelength_units,
       !.data_offset =
           IF (c.header_offset > 0 \/ c.file_offset > 0) /\ c.data_offset = 0
           THEN c.file_offset + c.header_offset
           ELSE c.data_offset]

\* lines 318-325: the cube as initialize leaves it and the exception it
\* raises, if any; what was assigned before the exception stays assigned
initialize(c, file, datatype, byteorder) ==
    LET c1 == initializeSizes(c, datatype, byteorder)
        c2 == initializeMmap(c1, file)
        c3 == initializeRaw(c2, file)
    IN IF ViewFails(c2)
       THEN [cube |-> c2, exc |-> Some("ValueError")]
       ELSE IF (HasRaw(c2) \/ c2.slice # None) /\ ShapeFails(c3)
       THEN [cube |-> c3, exc |-> Some("ValueError")]
       ELSE [cube |-> verifyAttributes(c3), exc |-> None]

\* the interleave tags a caller may pass, and str.lower() on them
Tags == {"bil", "bip", "BSQ", "gdal"}
lower(tag) ==
    CASE tag = "BSQ" -> "bsq"
      [] OTHER -> tag

\* the URL arguments a caller may pass (None: no argument)
URLs == {None, Some(FileURL), Some(HttpURL)}

\* mutant: the tag is compared as it was passed
newCube_mut(tag, u) ==
    IF tag \in {"bil", "bip", "bsq"}
    THEN [cube |-> Some(Construct(tag, u)), exc |-> None]
    ELSE [cube |-> None, exc |-> Some("ValueError")]

\* lines 721-733: the cube newCube returns and the exception it raises
newCube(tag, u) ==
    IF lower(tag) \in {"bil", "bip", "bsq"}
    THEN [cube |-> Some(Construct(lower(tag), u)), exc |-> None]
    ELSE [cube |-> None, exc |-> Some("ValueError")]

\* what stays of the live cube when a call does not touch it
SameCube == Becomes(Self) /\ UNCHANGED dataset

NewCube(tag, u) ==
    LET r == newCube(tag, u)
    IN /\ op' = "newCube"
       /\ args' = <<tag, u>>
       /\ IF r.exc = None
          THEN /\ Becomes(r.cube[1])
               /\ dataset' = "zeros"
               /\ ret' = Return(r.cube[1].class)
          ELSE /\ SameCube
               /\ ret' = Raise(r.exc[1])
       /\ UNCHANGED <<disk, saved, cursor>>

\* the shapes, byte orders and scale factors of the cubes of this part
FileShapes == {<<1, 2, 2>>, <<1, 1, 1>>}
ByteOrders == {LittleEndian, BigEndian}
ScaleFactors == {10000}

\* lines 750-754: a loader or client fills in the shape and element type of
\* a cube it has constructed, before the cube is opened
SetHeader(shp, datatype, byteorder) ==
    /\ mmap = None
    /\ ~HasRaw(Self)
    /\ lines = -1
    /\ op' = "header"
    /\ args' = <<>>
    /\ ret' = Return(None)
    /\ Becomes([Self EXCEPT !.lines = shp[1], !.samples = shp[2],
                            !.bands = shp[3],
                            !.data_type = Some(datatype),
                            !.byte_order = byteorder])
    /\ UNCHANGED <<dataset, disk, saved, cursor>>

\* lines 284-291, called with a true url
setURL(c, u) == [c EXCEPT !.url = u]

\* the bytes of the local file u names, None when there is no such file
File(u) == IF u = Some(FileURL) THEN disk ELSE None

\* mutant: a URL of any protocol is mapped
Open_mut(u) ==
    LET c == IF u # None THEN setURL(Self, u) ELSE Self
        r == initialize([c EXCEPT !.mmap = Some(Memmap)], disk[1],
                        None, None)
    IN /\ op' = "open"
       /\ args' = <<u>>
       /\ IF c.url = None
          THEN Becomes(c) /\ ret' = Raise("IOError") /\ UNCHANGED dataset
          ELSE IF c.mmap # None
          THEN Becomes(c) /\ ret' = Return(None) /\ UNCHANGED dataset
          ELSE IF File(c.url) = None
          THEN Becomes(c) /\ ret' = Raise("IOError") /\ UNCHANGED dataset
          ELSE /\ Becomes(r.cube)
               /\ ret' = IF r.exc = None THEN Return(None)
                         ELSE Raise(r.exc[1])
               /\ dataset' = IF saved # None THEN saved[1].dataset
                             ELSE dataset
       /\ UNCHANGED <<disk, saved, cursor>>

\* lines 293-305; numpy.memmap raises IOError when the file does not exist
Open(u) ==
    LET c == IF u # None THEN setURL(Self, u) ELSE Self
        r == initialize([c EXCEPT !.mmap = Some(Memmap)], disk[1],
                        None, None)
    IN /\ op' = "open"
       /\ args' = <<u>>
       /\ IF c.url = None
          THEN Becomes(c) /\ ret' = Raise("IOError") /\ UNCHANGED dataset
          ELSE IF c.url[1].protocol # "file"
          THEN Becomes(c) /\ ret' = Raise("IOError") /\ UNCHANGED dataset
          ELSE IF c.mmap # None
          THEN Becomes(c) /\ ret' = Return(None) /\ UNCHANGED dataset
          ELSE IF File(c.url) = None
          THEN Becomes(c) /\ ret' = Raise("IOError") /\ UNCHANGED dataset
          ELSE /\ Becomes(r.cube)
               /\ ret' = IF r.exc = None THEN Return(None)
                         ELSE Raise(r.exc[1])
               /\ dataset' = IF saved # None THEN saved[1].dataset
                             ELSE dataset
       /\ UNCHANGED <<disk, saved, cursor>>

\* lines 307-316, for a call that names no URL or a local file;
\* raw.tofile writes the array's elements in the array's own byte order,
\* which for numpy.zeros is the host's
Save(u) ==
    LET c == IF u # None THEN setURL(Self, u) ELSE Self
    IN /\ c.url \in {None, Some(FileURL)}
       /\ op' = "save"
       /\ args' = <<u>>
       /\ Becomes(c)
       /\ IF c.url = None
          THEN ret' = Return(None) /\ UNCHANGED <<disk, saved>>
          ELSE IF c.mmap = Some(Memmap)
          THEN ret' = Return(None) /\ UNCHANGED <<disk, saved>>
          ELSE IF ~HasRaw(c)
          THEN ret' = Raise("AttributeError") /\ UNCHANGED <<disk, saved>>
          ELSE /\ ret' = Return(None)
               /\ disk' = Some(ToBytes(raw, itemsize, nativeByteOrder))
               /\ saved' = Some([class |-> class, lines |-> lines,
                                 samples |-> samples, bands |-> bands,
                                 data_type |-> data_type,
                                 byte_order |-> byte_order,
                                 dataset |-> dataset])
       /\ UNCHANGED <<dataset, cursor>>

\* mutant: the scale factor is left to verifyAttributes
createCube_mut(tag, shp, datatype, byteorder, scalefactor) ==
    LET n == newCube(tag, None)
        c == [n.cube[1] EXCEPT
                !.interleave = tag,
                !.samples = shp[2], !.lines = shp[1], !.bands = shp[3],
                !.data_type = Some(datatype),
                !.byte_order = byteorder,
                !.raw = [i \in 0 .. shp[1] * shp[2] * shp[3] - 1 |-> 0],
                !.mmap = Some(PyTrue)]
        r == initialize(c, <<>>, Some(datatype), Some(byteorder))
    IN IF n.exc # None THEN n
       ELSE [cube |-> Some(r.cube), exc |-> r.exc]

\* lines 735-747: the cube createCube returns and the exception it raises
createCube(tag, shp, datatype, byteorder, scalefactor) ==
    LET n == newCube(tag, None)
        c == [n.cube[1] EXCEPT
                !.interleave = tag,
                !.samples = shp[2], !.lines = shp[1], !.bands = shp[3],
                !.data_type = Some(datatype),
                !.byte_order = byteorder,
                !.scale_factor = Some(scalefactor),
                !.raw = [i \in 0 .. shp[1] * shp[2] * shp[3] - 1 |-> 0],
                !.mmap = Some(PyTrue)]
        r == initialize(c, <<>>, Some(datatype), Some(byteorder))
    IN IF n.exc # None THEN n
       ELSE [cube |-> Some(r.cube), exc |-> r.exc]

CreateCube(tag, shp, datatype, byteorder, scalefactor) ==
    LET r == createCube(tag, shp, datatype, byteorder, scalefactor)
    IN /\ op' = "createCube"
       /\ args' = <<tag, shp, datatype, byteorder, scalefactor>>
       /\ IF r.exc = None
          THEN /\ Becomes(r.cube[1])
               /\ dataset' = "zeros"
               /\ ret' = Return(r.cube[1].class)
          ELSE /\ SameCube
               /\ ret' = Raise(r.exc[1])
       /\ UNCHANGED <<disk, saved, cursor>>

\* a client writes the values of dataset d into the array of an in-memory
\* cube, each at its interleave's position
FillPayload(d) ==
    /\ mmap = Some(PyTrue)
    /\ HasRaw(Self)
    /\ dataset # d
    /\ op' = "fill"
    /\ args' = <<d>>
    /\ ret' = Return(None)
    /\ Becomes([Self EXCEPT !.raw = Stored(d)])
    /\ dataset' = d
    /\ UNCHANGED <<disk, saved, cursor>>

\* a program starts with the cube newCube('bip') returns and no file
InitFile ==
    /\ Is(Construct("bip", None))
    /\ dataset = "zeros"
    /\ disk = None
    /\ saved = None
    /\ op = "newCube" /\ args = <<"bip", None>> /\ ret = Return("BIPCube")
    /\ cursor = 0
    /\ SingleThreaded

NextFile ==
    /\ UNCHANGED raceVars
    /\ \/ \E tag \in Tags, u \in URLs : NewCube(tag, u)
       \/ \E shp \in FileShapes, datatype \in DataTypes,
             byteorder \in ByteOrders : SetHeader(shp, datatype, byteorder)
       \/ \E u \in URLs : Open(u)
       \/ \E u \in {None, Some(FileURL)} : Save(u)
       \/ \E tag \in Tags \ {"bil"}, shp \in FileShapes, datatype \in DataTypes,
             byteorder \in ByteOrders, scalefactor \in ScaleFactors :
             CreateCube(tag, shp, datatype, byteorder, scalefactor)
       \/ FillPayload("arange")

SpecFile == InitFile /\ [][NextFile]_vars

----------------------------------------------------------------------------
\* Opening the file of a cube a format loader has populated

\* the shape a loader assigns, or leaves unset
HeaderShapes == {<<1, 2, 2>>, <<-1, -1, -1>>}

\* the values a loader leaves in self.data_bytes, 0 being unset
HeaderDataBytes == {0, 4}

\* the values a loader leaves in self.header_offset and self.file_offset,
\* and in self.data_offset, 0 being unset
HeaderOffsets == {0, 2}
DataOffsets == {0, 4}

\* a file of prefix bytes of header and n bytes of payload
FileBytes(prefix, n) ==
    [p \in 0 .. prefix + n - 1 |-> IF p < prefix THEN 255 ELSE p - prefix]

\* the files on disk: a header of 0, 2 or 4 bytes before 4 or 8 bytes
Files == {FileBytes(prefix, n) : prefix \in {0, 2, 4}, n \in {4, 8}}

\* lines 204-256 followed by a loader's assignments: the cubes a loader
\* leaves for open()
FileHeaders ==
    {[Construct("bip", Some(FileURL)) EXCEPT
         !.lines = shp[1], !.samples = shp[2], !.bands = shp[3],
         !.data_type = dt, !.data_bytes = db,
         !.header_offset = ho, !.file_offset = fo, !.data_offset = do] :
       shp \in HeaderShapes,
       dt \in {None} \cup {Some(t) : t \in DataTypes},
       db \in HeaderDataBytes,
       ho \in HeaderOffsets, fo \in HeaderOffsets, do \in DataOffsets}

InitHeader ==
    /\ \E h \in FileHeaders : Is(h)
    /\ dataset = "arange"
    /\ disk \in {Some(f) : f \in Files}
    /\ saved = None
    /\ op = "header" /\ args = <<>> /\ ret = Return(None)
    /\ cursor = 0
    /\ SingleThreaded

NextHeader ==
    /\ UNCHANGED raceVars
    /\ \E u \in {None, Some(FileURL), Some(OtherURL)} : Open(u)

SpecHeader == InitHeader /\ [][NextHeader]_vars

----------------------------------------------------------------------------
\* Defaults: verifyAttributes on the cube a format loader has populated

\* the header values a loader may assign; wavelengths are 50.0, 100.0 and
\* 150.0
HeaderScaleFactors == {None, Some(0), Some(10000)}
HeaderWavelengths == {<<>>} \cup [0 .. MaxBands - 1 -> {50000, 100000, 150000}]
HeaderUnits == {None, Some("nm"), Some("um")}
HeaderBadBands == {<<>>} \cup [0 .. MaxBands - 1 -> {0, 1}]

\* lines 204-256 followed by a loader's assignments: the cubes a loader
\* leaves for open() and verifyAttributes()
Headers ==
    {[Construct("bip", Some(FileURL)) EXCEPT
         !.lines = 1, !.samples = 1, !.bands = MaxBands,
         !.data_type = dt, !.scale_factor = sf, !.bbl = bb,
         !.wavelengths = w, !.wavelength_units = wu,
         !.header_offset = ho, !.file_offset = fo, !.data_offset = do] :
       dt \in {None} \cup {Some(t) : t \in ElementTypes},
       sf \in HeaderScaleFactors, bb \in HeaderBadBands,
       w \in HeaderWavelengths, wu \in HeaderUnits,
       ho \in HeaderOffsets, fo \in HeaderOffsets, do \in DataOffsets}

\* lines 366-394, called on the live cube
VerifyAttributes ==
    /\ op' = "verifyAttributes"
    /\ args' = <<>>
    /\ ret' = Return(None)
    /\ Becomes(verifyAttributes(Self))
    /\ UNCHANGED <<dataset, disk, saved, cursor, raceVars>>

InitVerify ==
    /\ \E h \in Headers : Is(h)
    /\ dataset = "zeros"
    /\ disk = None
    /\ saved = None
    /\ op = "header" /\ args = <<>> /\ ret = Return(None)
    /\ cursor = 0
    /\ SingleThreaded

NextVerify == VerifyAttributes

SpecVerify == InitVerify /\ [][NextVerify]_vars

----------------------------------------------------------------------------
\* Claims on addressing (checked under SpecAddr)

\* C1: for each interleave and every shape, flatToLocation and locationToFlat
\* are inverse of one another: flatToLocation(locationToFlat(l,s,b)) is
\* (l,s,b) for every location of the cube, and for every flat position pos
\* of the payload flatToLocation(pos) is a location of the cube that
\* locationToFlat takes back to pos.
C1_InverseAddressing ==
    /\ \A t \in Locations :
          flatToLocation(locationToFlat(t[1], t[2], t[3])) = t
    /\ \A pos \in 0 .. Size - 1 :
          LET t == flatToLocation(pos)
          IN t \in Locations /\ locationToFlat(t[1], t[2], t[3]) = pos

C1_Witness ==
    /\ op = "flatToLocation"
    /\ interleave = "bil"
    /\ lines > 1 /\ samples > 1 /\ bands > 1
    /\ ret = <<1, 0, 1>>
    /\ locationToFlat(1, 0, 1) = args[1]

\* C2: layout equivalence: a cube of any interleave that holds the logical
\* data v, each value at that interleave's own position, returns v(l,s,b)
\* from getPixel(l,s,b); so the BIP, the BIL and the BSQ cube of one shape
\* loaded with the same data return the same value at every location.
C2_LayoutEquivalence ==
    raw = raw0 =>
        \A t \in Locations :
            getPixel(t[1], t[2], t[3]) = Logical(dataset, t[1], t[2], t[3])

C2_Witness ==
    /\ op = "getPixel"
    /\ interleave = "bsq"
    /\ dataset = "arange"
    /\ lines > 1 /\ samples > 1 /\ bands > 1
    /\ args = <<1, 0, 1>>
    /\ ret = Logical("arange", 1, 0, 1)

\* C3: in every interleave the accessors agree: getPixel(l,s,b) is
\* getBandRaw(b)[l][s], is getSpectraRaw(l,s)[b], and is the element of the
\* flat payload at locationToFlat(l,s,b); getBandRaw(b) is lines x samples
\* and getSpectraRaw(l,s) has length bands.
C3_AccessorsAgree ==
    /\ \A t \in Locations :
          LET p == getPixel(t[1], t[2], t[3])
              pos == locationToFlat(t[1], t[2], t[3])
          IN /\ Values(getBandRaw(t[3]))[<<t[1], t[2]>>] = p
             /\ Values(getSpectraRaw(t[1], t[2]))[<<t[3]>>] = p
             /\ Values(getFlatView)[<<pos>>] = p
             /\ raw[pos] = p
    /\ \A band \in 0 .. bands - 1 :
          DOMAIN Values(getBandRaw(band)) = Pixels
    /\ \A t \in Pixels :
          DOMAIN Values(getSpectraRaw(t[1], t[2])) =
              {<<b>> : b \in 0 .. bands - 1}

C3_Witness ==
    /\ op = "getSpectraRaw"
    /\ interleave = "bil"
    /\ dataset = "arange"
    /\ lines > 1 /\ samples > 1 /\ bands > 1
    /\ args = <<1, 1>>
    /\ Values(ret)[<<1>>] = getPixel(1, 1, 1)
    /\ Values(ret)[<<1>>] # Values(ret)[<<0>>]

\* C4: getBandBoundary() is the distance in the flat payload between
\* adjacent bands of one pixel: locationToFlat(l,s,b+1) -
\* locationToFlat(l,s,b) for every location with b+1 < bands; it is 1 for
\* BIP, samples for BIL and lines*samples for BSQ.
C4_BandBoundary ==
    /\ \A t \in Locations :
          t[3] + 1 < bands =>
              locationToFlat(t[1], t[2], t[3] + 1)
                  - locationToFlat(t[1], t[2], t[3]) = getBandBoundary
    /\ getBandBoundary = CASE interleave = "bip" -> 1
                           [] interleave = "bil" -> samples
                           [] interleave = "bsq" -> lines * samples

C4_Witness ==
    /\ op = "getBandBoundary"
    /\ interleave = "bsq"
    /\ lines > 1 /\ samples > 1 /\ bands > 1
    /\ ret = lines * samples
    /\ ret = locationToFlat(1, 1, 1) - locationToFlat(1, 1, 0)

\* C9: getLineOfSpectraCopy(l) is a samples x bands array in every
\* interleave: its element [s][b] is getPixel(l,s,b).
C9_LineOfSpectraShape ==
    \A line \in 0 .. lines - 1 :
        LET r == Values(getLineOfSpectraCopy(line))
        IN /\ DOMAIN r = (0 .. samples - 1) \X (0 .. bands - 1)
           /\ \A t \in DOMAIN r : r[t] = getPixel(line, t[1], t[2])

C9_Witness ==
    /\ op = "getLineOfSpectraCopy"
    /\ interleave = "bsq"
    /\ dataset = "arange"
    /\ samples > 1 /\ bands > 1
    /\ Values(ret)[<<1, 0>>] = getPixel(args[1], 1, 0)
    /\ Values(ret)[<<1, 0>>] # Values(ret)[<<0, 1>>]

----------------------------------------------------------------------------
\* Claims on the extrema and the accessors (checked under Spec)

\* the smaller and the larger of a recorded extremum (or None) and a value
Lower(e, v) == IF e = None THEN v ELSE IF v < e[1] THEN v ELSE e[1]
Higher(e, v) == IF e = None THEN v ELSE IF v > e[1] THEN v ELSE e[1]

\* C5: extrema monotonicity: over every call of getBand, getSpectra,
\* getLineOfSpectra and updateExtrema (and of the in-place accessors), a
\* recorded minimum never increases, a recorded maximum never decreases and
\* neither goes back to unset; updateExtrema(values) leaves the pair at
\* (min(old min, min(values)), max(old max, max(values))).
C5_ExtremaMonotone ==
    [][ /\ spectraextrema[1] # None =>
              /\ spectraextrema'[1] # None
              /\ spectraextrema'[1][1] <= spectraextrema[1][1]
        /\ spectraextrema[2] # None =>
              /\ spectraextrema'[2] # None
              /\ spectraextrema'[2][1] >= spectraextrema[2][1]
        /\ op' = "updateExtrema" =>
              LET values == {args'[1][t] : t \in DOMAIN args'[1]}
              IN spectraextrema' =
                    <<Some(Lower(spectraextrema[1], SetMin(values))),
                      Some(Higher(spectraextrema[2], SetMax(values)))>>
      ]_vars

\* updateExtrema([-3]) after a read: the minimum moved, the maximum stayed
C5_Witness ==
    /\ op = "updateExtrema"
    /\ DOMAIN args[1] = {<<0>>}
    /\ args[1][<<0>>] = -3
    /\ spectraextrema[1] = Some(-3)
    /\ spectraextrema[2] # None
    /\ spectraextrema[2][1] \in {1, 2}

\* the values of one band, read pixel by pixel
BandValues(band) == {getPixel(t[1], t[2], band) : t \in Pixels}

C8_CopyingReadsKeepPayload ==
    [][ op' \in {"getBand", "getSpectra", "getLineOfSpectra"} =>
            \A t \in Locations :
                getPixel(t[1], t[2], t[3])' = getPixel(t[1], t[2], t[3])
      ]_vars

----------------------------------------------------------------------------
\* Claims on a whole-cube read (checked under SpecScan)

\* C6: after the whole cube has been read once through getSpectra (every
\* line and sample) or getLineOfSpectra (every line), starting from unset
\* extrema, spectraextrema is the global minimum and maximum of the payload,
\* whatever the bad band list.
C6_ExtremaAfterFullRead ==
    ReadWholeCube =>
        spectraextrema =
            <<Some(SetMin({raw0[pos] : pos \in DOMAIN raw0})),
              Some(SetMax({raw0[pos] : pos \in DOMAIN raw0}))>>

----------------------------------------------------------------------------
\* Claims on band selection by wavelength (checked under SpecWave)

\* every band is usable
AllUsable == \A c \in 0 .. bands - 1 : bbl[c] = 1

\* the wavelength list is ascending
IsAscending ==
    /\ DOMAIN wavelengths # {}
    /\ \A c \in 0 .. bands - 2 : wavelengths[c] < wavelengths[c + 1]

\* The query just made (args) has no usable band in [min,max], and its
\* center lies strictly between the wavelengths of bands k and k+1, at the
\* same distance from both.
TieAt(k) ==
    LET max1 == IF args[2] < 0 THEN args[1] ELSE args[2]
        min2 == normalizeUnits(args[1], args[3])
        max2 == normalizeUnits(max1, args[3])
        center2 == min2 + max2
    IN /\ ~\E c \in 0 .. bands - 1 :
             bbl[c] = 1 /\ min2 <= wavelengths[c] /\ wavelengths[c] <= max2
       /\ 2 * wavelengths[k] < center2
       /\ center2 < 2 * wavelengths[k + 1]
       /\ center2 - 2 * wavelengths[k] = 2 * wavelengths[k + 1] - center2

\* C10 as stated: in the nearest-neighbour fallback a query center at equal
\* distance from the two consecutive bands that bracket it returns the
\* lower-index band (all bands usable, ascending wavelengths, as in the
\* example [450,550,650] queried at 500, said to return [0]).
C10_TieLowerIndex ==
    op = "getBandListByWavelength" =>
        \A k \in 0 .. bands - 2 :
            AllUsable /\ IsAscending /\ TieAt(k) => ret = <<k>>

\* C10 amended: with an ascending wavelength list, when no usable band lies
\* in [min,max] and the center is at equal distance from the consecutive
\* bands k and k+1 that bracket it, the HIGHER-index band is returned: the
\* result is [k+1] when band k is usable (whether or not band k+1 is) and
\* the empty list when band k is not; [450,550,650] queried at 500 returns
\* [1].
C10_TieHigherIndex ==
    op = "getBandListByWavelength" =>
        \A k \in 0 .. bands - 2 :
            IsAscending /\ TieAt(k) =>
                ret = IF bbl[k] = 1 THEN <<k + 1>> ELSE <<>>

\* the example: [450,550,650] nm, all usable, queried at 500 nm
C10_Witness ==
    /\ op = "getBandListByWavelength"
    /\ bands = 3
    /\ AllUsable
    /\ wavelength_units = Some("nm")
    /\ wavelengths = [c \in 0 .. 2 |-> (450 + 100 * c) * 1000]
    /\ args = <<500000, -1, "nm">>
    /\ TieAt(0)
    /\ ret = <<1>>

----------------------------------------------------------------------------
\* Claims on the metadata queries (checked under SpecWave)

\* the range [lo,hi] of the query just made, in the cube's units
QueryLo == normalizeUnits(args[1], args[3])
QueryHi == IF args[2] < 0 THEN QueryLo ELSE normalizeUnits(args[2], args[3])
\* the usable bands, and those of them whose wavelength lies in the range
Usable == {c \in 0 .. bands - 1 : bbl[c] = 1}
Hits == {c \in Usable : QueryLo <= wavelengths[c] /\ wavelengths[c] <= QueryHi}
\* no usable band lies in the range of the query just made
NoHit ==
    /\ op = "getBandListByWavelength"
    /\ DOMAIN wavelengths # {}
    /\ Hits = {}

\* C11: getBandListByWavelength(min, max, units): when at least one usable
\* band has its wavelength in [min,max] (after unit normalization) the
\* result is exactly the ascending list of all bands c with bbl[c]==1 and
\* min <= wavelengths[c] <= max; when max is omitted the range is
\* [min,min]; when the cube has no wavelengths the result is the empty list.
C11_InRangeBands ==
    op = "getBandListByWavelength" =>
        /\ DOMAIN wavelengths = {} => ret = <<>>
        /\ DOMAIN wavelengths # {} /\ Hits # {} =>
              /\ {ret[i] : i \in 1 .. Len(ret)} = Hits
              /\ Len(ret) = Cardinality(Hits)
              /\ \A i \in 1 .. Len(ret) - 1 : ret[i] < ret[i + 1]

\* a range query over three bands of which the middle one is bad
C11_Witness ==
    /\ op = "getBandListByWavelength"
    /\ DOMAIN wavelengths # {}
    /\ bands = 3
    /\ bbl[1] = 0
    /\ args[2] > args[1]
    /\ Hits = {0, 2}
    /\ ret = <<0, 2>>

\* C12 as stated: when no usable band lies in [min,max] and the center is
\* below wavelengths[0] the result is the single lowest-index band with
\* bbl==1; when the center is above the last wavelength the result is the
\* single highest-index band with bbl==1 (some band being usable).
C12_EdgeFallback ==
    NoHit /\ Usable # {} =>
        /\ QueryLo + QueryHi < 2 * wavelengths[0] =>
              ret = <<SetMin(Usable)>>
        /\ QueryLo + QueryHi > 2 * wavelengths[bands - 1] =>
              ret = <<SetMax(Usable)>>

\* C12 amended: the test against wavelengths[0] comes first.  When no
\* usable band lies in [min,max] and some band is usable, the result is the
\* single lowest-index usable band when the center is below wavelengths[0],
\* and the single highest-index usable band when the center is above the
\* last wavelength and not below wavelengths[0].
C12_EdgeFallbackInOrder ==
    NoHit /\ Usable # {} =>
        /\ QueryLo + QueryHi < 2 * wavelengths[0] =>
              ret = <<SetMin(Usable)>>
        /\ (/\ QueryLo + QueryHi >= 2 * wavelengths[0]
            /\ QueryLo + QueryHi > 2 * wavelengths[bands - 1]) =>
              ret = <<SetMax(Usable)>>

\* a query above the last wavelength of a cube whose last band is bad
C12_Witness ==
    /\ NoHit
    /\ bands = 3
    /\ bbl[2] = 0
    /\ Usable # {}
    /\ QueryLo + QueryHi >= 2 * wavelengths[0]
    /\ QueryLo + QueryHi > 2 * wavelengths[2]
    /\ ret = <<SetMax(Usable)>>

\* C13: guessDisplayBands(): with bands>=3 and wavelengths present the
\* result is the list of the first band getBandListByWavelength returns for
\* 660, 550 and 440 nm in that order, collapsed to one element when all
\* three are equal; otherwise it is [0]; every returned index is a usable
\* band (bbl==1) in 0..bands-1.
C13_DisplayBands ==
    op = "guessDisplayBands" =>
        /\ ~Raised(ret)
        /\ LET found(wl) == getBandListByWavelength(wl, -1, "nm")
               b == <<found(660000)[1], found(550000)[1], found(440000)[1]>>
           IN ret.return =
                  IF bands >= 3 /\ DOMAIN wavelengths # {}
                  THEN IF b[1] = b[2] /\ b[2] = b[3] THEN <<b[1]>> ELSE b
                  ELSE <<0>>
        /\ \A i \in 1 .. Len(ret.return) :
              ret.return[i] \in 0 .. bands - 1 /\ bbl[ret.return[i]] = 1

\* C14: getBadBandList(other) returns the elementwise AND of the two bad
\* band lists (result[i]==1 exactly when both are 1, length bands), is
\* symmetric in the two cubes and leaves both cubes' bbl unchanged; with no
\* argument it returns the cube's own bbl.
C14_BadBandAnd ==
    /\ [](op = "getBadBandList" =>
            IF args[1] = None
            THEN ret = bbl
            ELSE /\ DOMAIN ret = 0 .. bands - 1
                 /\ \A i \in 0 .. bands - 1 :
                       /\ ret[i] \in {0, 1}
                       /\ ret[i] = 1 <=> bbl[i] = 1 /\ args[1][1].bbl[i] = 1
                 /\ ret = getBadBandList(args[1][1], Some(Self)))
    /\ [][op' = "getBadBandList" => bbl' = bbl]_vars

\* the example: [1,0,1] and [1,1,0] give [1,0,0]
C14_Witness ==
    /\ op = "getBadBandList"
    /\ bands = 3
    /\ bbl = [i \in 0 .. 2 |-> IF i = 1 THEN 0 ELSE 1]
    /\ args[1] # None
    /\ args[1][1].bbl = [i \in 0 .. 2 |-> IF i = 2 THEN 0 ELSE 1]
    /\ ret = [i \in 0 .. 2 |-> IF i = 0 THEN 1 ELSE 0]

\* C15: normalizeUnits(value, fromUnits) returns the value unchanged when
\* the cube has no units or fromUnits equals the cube's units, scales it
\* down by 1000 for a nm value on a 'um' cube (1.0 nm is 0.001 um) and up by
\* 1000 for a um value on a 'nm' cube.
C15_NormalizeUnits ==
    op = "normalizeUnits" =>
        /\ wavelength_units = None \/ wavelength_units = Some(args[2]) =>
              ret = args[1]
        /\ wavelength_units = Some("um") /\ args[2] = "nm" =>
              ret * 1000 = args[1]
        /\ wavelength_units = Some("nm") /\ args[2] = "um" =>
              ret = args[1] * 1000

\* the example: normalizeUnits(1.0, 'nm') on a 'um' cube is 0.001
C15_Witness ==
    /\ op = "normalizeUnits"
    /\ wavelength_units = Some("um")
    /\ args = <<1000, "nm">>
    /\ ret = 1

\* C28: every band index getBandListByWavelength returns, in the in-range
\* case and in every nearest-neighbour fallback branch, is a usable band: it
\* lies in 0..bands-1 and has bbl==1, for every bad band list and query.
C28_ReturnedBandsUsable ==
    op = "getBandListByWavelength" =>
        \A i \in 1 .. Len(ret) : ret[i] \in 0 .. bands - 1 /\ bbl[ret[i]] = 1

\* C29: on a cube with a non-empty ascending wavelength list and at least
\* one usable band getBandListByWavelength returns a non-empty list for
\* every query, so that guessDisplayBands never fails with an index error.
C29_NonEmptyResult ==
    /\ (op = "getBandListByWavelength" /\ IsAscending /\ Usable # {})
           => ret # <<>>
    /\ (op = "guessDisplayBands" /\ IsAscending /\ Usable # {})
           => ~Raised(ret)

----------------------------------------------------------------------------
\* Claims on the factory, open and save (checked under SpecFile)

\* the URL a call open(u) or save(u) resolves: the argument, or else the
\* URL the cube stored before
Resolved(u, stored) == IF u # None THEN u ELSE stored

\* C16: open(url) fails with an I/O error when no URL is set (neither passed
\* nor stored) and when the URL's protocol is not a local file; in both
\* cases no mapping is created (mmap stays as it was, None on a cube not
\* opened before) and no typed view is installed (slice and raw stay).
C16_OpenFails ==
    [][op' = "open" =>
          LET to == Resolved(args'[1], url)
          IN (IF to = None THEN TRUE ELSE to[1].protocol # "file") =>
                 /\ ret' = Raise("IOError")
                 /\ mmap' = mmap
                 /\ slice' = slice
                 /\ raw' = raw]_vars

\* a cube with its header set, never opened, asked to open a remote URL
C16_Witness ==
    /\ op = "open"
    /\ args = <<Some(HttpURL)>>
    /\ ret = Raise("IOError")
    /\ lines = 1
    /\ mmap = None
    /\ ~HasRaw(Self)

\* C17: save(url) fails with an I/O error whenever no URL is resolvable (no
\* url argument and no stored URL, as for a cube fresh from createCube); it
\* never returns successfully without having flushed or written anything.
C17_SaveFailsWithoutURL ==
    op = "save" /\ args[1] = None /\ url = None => ret = Raise("IOError")

\* C18: a failed open leaves the cube unmapped: whenever open() raises on a
\* cube that held no mapping (no URL, unsupported protocol, mapping failure,
\* or a failure inside initialize such as a payload whose size does not
\* match the declared shape), the cube afterwards holds no mapping (mmap is
\* None), so that a later open() maps and initializes again.
C18_FailedOpenUnmapped ==
    [][op' = "open" /\ mmap = None /\ Raised(ret') => mmap' = None]_vars

\* C19: round trip: a file saved by an in-memory cube from createCube and
\* opened by a cube of the same layout, shape, element type and byte order
\* gives getPixel(l,s,b) equal to the saved cube's for every location.
C19_RoundTrip ==
    (/\ op = "open"
     /\ ~Raised(ret)
     /\ mmap = Some(Memmap)
     /\ saved # None
     /\ saved[1] = [class |-> class, lines |-> lines, samples |-> samples,
                    bands |-> bands, data_type |-> data_type,
                    byte_order |-> byte_order, dataset |-> dataset])
    => \A t \in Locations :
           getPixel(t[1], t[2], t[3]) =
               Logical(saved[1].dataset, t[1], t[2], t[3])

\* C20: newCube(layoutTag, url) returns a cube whose class and interleave
\* tag match the requested tag, compared without regard to case, for 'bil',
\* 'bip' and 'bsq'; every other tag raises ValueError and no cube is made;
\* no call on a cube changes its class or its interleave tag.
C20_NewCubeTag ==
    /\ [](op = "newCube" =>
            IF args[1] \in {"bil", "bip", "BSQ"}
            THEN /\ <<args[1], interleave, class>> \in
                        {<<"bil", "bil", "BILCube">>,
                         <<"bip", "bip", "BIPCube">>,
                         <<"BSQ", "bsq", "BSQCube">>}
                 /\ ret = Return(class)
                 /\ url = args[2]
            ELSE ret = Raise("ValueError"))
    /\ [][/\ (op' = "newCube" /\ Raised(ret')) => Self' = Self
          /\ op' \notin {"newCube", "createCube"} =>
                class' = class /\ interleave' = interleave]_vars

\* newCube('BSQ') has returned a BSQCube tagged 'bsq'
C20_Witness ==
    /\ op = "newCube"
    /\ args[1] = "BSQ"
    /\ class = "BSQCube"
    /\ interleave = "bsq"
    /\ ret = Return("BSQCube")

\* C21: the cube createCube returns has no backing file, a payload of
\* zeros at every location, the requested shape, data_bytes equal to
\* itemsize*lines*samples*bands, the scale factor that was passed, a
\* bad-band list of ones for every band and no extrema
C21_CreateCubeZeroed ==
    (op = "createCube" /\ ~Raised(ret)) =>
        /\ url = None
        /\ mmap = Some(PyTrue)
        /\ slice = None
        /\ \A loc \in Locations : getPixel(loc[1], loc[2], loc[3]) = 0
        /\ <<lines, samples, bands>> = args[2]
        /\ data_type = Some(args[3])
        /\ itemsize = ItemSize(args[3])
        /\ data_bytes = itemsize * lines * samples * bands
        /\ scale_factor = Some(args[5])
        /\ bbl = [i \in 0 .. bands - 1 |-> 1]
        /\ spectraextrema = <<None, None>>

\* createCube('BSQ', 1, 2, 2, uint8) has returned a cube of four zeros
C21_Witness ==
    /\ op = "createCube"
    /\ ~Raised(ret)
    /\ args[1] = "BSQ"
    /\ args[2] = <<1, 2, 2>>
    /\ args[3] = "uint8"
    /\ class = "BSQCube"
    /\ Size = 4
    /\ \A loc \in Locations : getPixel(loc[1], loc[2], loc[3]) = 0

----------------------------------------------------------------------------
\* Claims on opening a populated cube (checked under SpecHeader)

\* an open() that maps the file and runs initialize()
FirstOpen == op' = "open" /\ mmap = None /\ mmap' = Some(Memmap)

\* C22 as stated: after initialize, data_bytes is
\* itemsize*samples*lines*bands when shape and element type are known, and
\* whichever of data_bytes and the shape was unset is derived from the other
C22_DataBytesInvariant ==
    [][FirstOpen =>
          /\ (lines' > 0 /\ data_type' # None)
                 => data_bytes' = itemsize' * samples' * lines' * bands'
          /\ (data_bytes # 0 /\ lines < 0 /\ data_type # None)
                 => /\ lines' > 0 /\ samples' > 0 /\ bands' > 0
                    /\ data_bytes' = itemsize' * samples' * lines' * bands']_vars

\* C22, amended: initialize sets itemsize from a known element type and
\* sets data_bytes to itemsize*samples*lines*bands only when data_bytes
\* was 0; a data_bytes that was set is kept, and the shape is never
\* derived
C22_DataBytesFromShape ==
    [][FirstOpen =>
          /\ itemsize' = IF data_type # None THEN ItemSize(data_type[1])
                         ELSE itemsize
          /\ data_bytes' = IF data_bytes = 0
                           THEN itemsize' * samples * lines * bands
                           ELSE data_bytes
          /\ <<lines', samples', bands'>> = <<lines, samples, bands>>]_vars

\* an int16 cube of shape (1,2,2) has been opened and holds the 8 bytes
\* no header supplies
C22_Witness ==
    /\ op = "open"
    /\ ~Raised(ret)
    /\ data_type = Some("int16")
    /\ <<lines, samples, bands>> = <<1, 2, 2>>
    /\ itemsize = 2
    /\ data_bytes = 8
    /\ data_bytes \notin HeaderDataBytes

\* C23: the first open of a cube of known shape and element type with a
\* header or file offset and no data offset leaves data_offset at
\* file_offset + header_offset and a view that starts at that byte and
\* covers data_bytes bytes
C23_SliceFromDerivedOffset ==
    [][(FirstOpen /\ lines > 0 /\ data_type # None /\ data_offset = 0
           /\ (header_offset > 0 \/ file_offset > 0)) =>
          /\ data_offset' = file_offset + header_offset
          /\ slice' = Some(<<file_offset + header_offset,
                             file_offset + header_offset + data_bytes'>>)]_vars

\* the file a mapped cube maps: cube.dat is the only file there is
Mapped == IF mmap = Some(Memmap) THEN Some(FileURL) ELSE None

\* the open() that mapped the file returned without error
Opened == mmap = Some(Memmap) /\ HasRaw(Self) /\ ~ShapeFails(Self)

\* C30: after a successful open of an opened cube the url names the mapped
\* file, and payload, metadata and extrema are what they were
C30_OpenKeepsMapping ==
    /\ []((Opened /\ op = "open" /\ ~Raised(ret)) => url = Mapped)
    /\ [][(Opened /\ op' = "open" /\ ~Raised(ret'))
             => [Self EXCEPT !.url = None]' = [Self EXCEPT !.url = None]]_vars

----------------------------------------------------------------------------
\* Claims on the defaults (checked under SpecVerify)

\* C24: verifyAttributes leaves a scale factor, a non-empty bad-band list,
\* wavelength units and a data offset that were set as they are (a data
\* offset of 0 beside a non-zero header or file offset included), and a
\* second call changes nothing
C24_KeepsExplicitValues ==
    [][op' = "verifyAttributes" =>
          /\ scale_factor # None => scale_factor' = scale_factor
          /\ DOMAIN bbl # {} => bbl' = bbl
          /\ wavelength_units # None => wavelength_units' = wavelength_units
          /\ (data_offset # 0 \/ header_offset > 0 \/ file_offset > 0)
                 => data_offset' = data_offset
          /\ op = "verifyAttributes" => Self' = Self]_vars

\* C25: an unset scale factor becomes 10000.0 for every integer element
\* type and 1.0 for float32 and float64
C25_DefaultScaleFactor ==
    [][(op' = "verifyAttributes" /\ scale_factor = None /\ data_type # None)
          => scale_factor' =
                 Some(IF data_type[1] \in {"float32", "float64"}
                      THEN 1 ELSE 10000)]_vars

\* C26: with wavelengths and no units, the units become nm when the
\* largest wavelength is at least 100 and um otherwise; without
\* wavelengths, or with units, the units stay as they are
C26_UnitsFromLongest ==
    [][op' = "verifyAttributes" =>
          IF DOMAIN wavelengths # {} /\ wavelength_units = None
          THEN wavelength_units' =
                   Some(IF amax(wavelengths) >= 100000 THEN "nm" ELSE "um")
          ELSE wavelength_units' = wavelength_units]_vars

----------------------------------------------------------------------------
\* Claims on concurrent copying reads (checked under SpecRace)

AllDone == \A t \in Threads : At(t, "done")

\* the stored extrema bound every value thread t read
Covers(t) ==
    /\ spectraextrema[1] # None
    /\ spectraextrema[2] # None
    /\ spectraextrema[1][1] <= amin(threads[t].spectra)
    /\ spectraextrema[2][1] >= amax(threads[t].spectra)

\* C27: when the clients serialize their copying reads, the extrema stored
\* once both calls have returned bound every value either of them read
C27_SerializedCoversAll ==
    (serialized /\ AllDone) => \A t \in Threads : Covers(t)

\* two unserialized copying reads have returned and the stored extrema miss
\* the minimum or the maximum one of them read
C27_Witness ==
    /\ ~serialized
    /\ AllDone
    /\ \E t \in Threads : ~Covers(t)

====
